---------------------------- MODULE Spec2Model ----------------------------
(***************************************************************************)
(* A model of qiskit_aer/backends/backendproperties.py: the Nduv and       *)
(* GateProperties value objects, the AerBackendProperties snapshot with    *)
(* its two derived indices and its accessors, and the converter            *)
(* target_to_backend_properties.                                           *)
(*                                                                         *)
(* Python values are records tagged with their type, so that None, an int  *)
(* and a tuple stay distinct: None is [type |-> "NoneType"], a str is      *)
(* [type |-> "str", s |-> ...].  A dict is a function from its keys, a     *)
(* list or a tuple is a sequence.  An object carries a cls field, which    *)
(* its plain (dict) form does not.  A call yields Return(v) or             *)
(* Raise(type, msg).                                                       *)
(***************************************************************************)
EXTENDS Integers, Sequences, FiniteSets, TLC

VARIABLES
    args,     \* the arguments of the last construction (None before any)
    target,   \* the capability map of the last conversion (None before any)
    props,    \* the snapshot the caller holds: an AerBackendProperties or None
    raised,   \* the exception the construction or conversion ended in, or None
    call,     \* the last method call on props: [op, gate, qubits, name, qubit]
    ret       \* what that call did: Return(v) or Raise(type, msg); None before

vars == <<args, target, props, raised, call, ret>>

-----------------------------------------------------------------------------
(* Python values *)

None == [type |-> "NoneType"]
Str(s) == [type |-> "str", s |-> s]
Int_(v) == [type |-> "int", v |-> v]
Tuple_(v) == [type |-> "tuple", v |-> v]

\* A number m * 10^e; zero is kept as 0 * 10^0.  The model's mantissas are
\* single digits, so equal numbers have equal records.
Number(m, e) == [type |-> "number", m |-> m, e |-> IF m = 0 THEN 0 ELSE e]

\* datetime.datetime at instant t, and the ISO-8601 text of instant t.
Datetime(t) == [type |-> "datetime", t |-> t]
IsoStr(t) == [type |-> "str", iso |-> t]

Return(v) == [kind |-> "return", val |-> v]
Raise(type, msg) == [kind |-> "raise", val |-> [type |-> type, msg |-> msg]]
IsRaise(r) == r.kind = "raise"
Raises(r, type) == r.kind = "raise" /\ r.val.type = type

EmptyDict == <<>>

\* dict.update: d with the entries of e written over it (last write wins).
Update(d, e) == e @@ d

\* bool(x) of a number.
Bool(x) == x.m # 0

-----------------------------------------------------------------------------
(* External collaborators, by their contracts *)

\* qiskit.utils.units.apply_prefix: the SI prefixes and their powers of ten.
prefactors ==
    [f |-> -15, p |-> -12, n |-> -9, u |-> -6, m |-> -3,
     k |-> 3, M |-> 6, G |-> 9, T |-> 12, P |-> 15]

\* A unit is the sequence of its characters.  No unit and a one-letter unit
\* ("s", "m" for metre) leave the value alone; a longer unit must start with
\* a prefix, and the value is scaled by its power of ten.
apply_prefix(value, unit) ==
    IF unit = <<>> \/ Len(unit) = 1
    THEN Return(value)
    ELSE IF unit[1] \notin DOMAIN prefactors
         THEN Raise("ValueError", <<"Could not understand unit", unit>>)
         ELSE Return(Number(value.m, value.e + prefactors[unit[1]]))

\* dateutil.parser.isoparse on a string in ISO format (the constructor's
\* documented precondition for a str last_update_date): the instant it names.
isoparse(s) == Datetime(s.iso)

-----------------------------------------------------------------------------
(* class Nduv *)

NduvParams == {"date", "name", "unit", "value"}

Nduv(date, name, unit, value) ==
    [cls |-> "Nduv", date |-> date, name |-> name, unit |-> unit, value |-> value]

\* cls(**data): every parameter must be given and no other keyword is taken.
Nduv_from_dict(data) ==
    IF DOMAIN data # NduvParams
    THEN Raise("TypeError", <<"Nduv.__init__", DOMAIN data>>)
    ELSE Return(Nduv(data.date, data.name, data.unit, data.value))

Nduv_to_dict(self) ==
    [date |-> self.date, name |-> self.name, unit |-> self.unit, value |-> self.value]

\* list(map(from_dict, value)): the objects, or the first exception met.
RECURSIVE MapFromDict(_, _, _)
MapFromDict(value, i, acc) ==
    IF i > Len(value) THEN Return(acc)
    ELSE LET r == Nduv_from_dict(value[i])
         IN IF IsRaise(r) THEN r ELSE MapFromDict(value, i + 1, Append(acc, r.val))

MapToDict(nduvs) == [i \in 1..Len(nduvs) |-> Nduv_to_dict(nduvs[i])]

-----------------------------------------------------------------------------
(* class GateProperties *)

GateParams == {"qubits", "gate", "parameters"}

\* __init__(self, qubits, gate, parameters, **kwargs)
GateProperties(qubits, gate, parameters, kwargs) ==
    [cls |-> "GateProperties", qubits |-> qubits, gate |-> gate,
     parameters |-> parameters, _data |-> Update(EmptyDict, kwargs)]

Restrict(d, keys) == [k \in DOMAIN d \cap keys |-> d[k]]

\* from_dict as it would be if it passed only the named fields on: the
\* extension fields of a record are then lost.
GateProperties_from_dict_NamedOnly(data) ==
    LET parsed == IF "parameters" \in DOMAIN data
                  THEN MapFromDict(data.parameters, 1, <<>>)
                  ELSE Return(<<>>)
    IN  IF IsRaise(parsed) THEN parsed
        ELSE IF ~(GateParams \subseteq DOMAIN data) \/ "self" \in DOMAIN data
        THEN Raise("TypeError", <<"GateProperties.__init__", DOMAIN data>>)
        ELSE Return(GateProperties(data.qubits, data.gate, parsed.val, EmptyDict))

GateProperties_from_dict(data) ==
    LET parsed == IF "parameters" \in DOMAIN data
                  THEN MapFromDict(data.parameters, 1, <<>>)
                  ELSE Return(<<>>)
    IN  IF IsRaise(parsed) THEN parsed
        ELSE IF ~(GateParams \subseteq DOMAIN data) \/ "self" \in DOMAIN data
        THEN Raise("TypeError", <<"GateProperties.__init__", DOMAIN data>>)
        ELSE Return(GateProperties(data.qubits, data.gate, parsed.val,
                                   Restrict(data, DOMAIN data \ GateParams)))

GateProperties_to_dict(self) ==
    Update([qubits |-> self.qubits, gate |-> self.gate,
            parameters |-> MapToDict(self.parameters)], self._data)

-----------------------------------------------------------------------------
(* class AerBackendProperties: construction *)

\* _apply_prefix as it would be if it let a unit it cannot resolve pass:
\* the value is then taken as it is.
_apply_prefix_Lenient(value, unit) ==
    LET r == apply_prefix(value, unit)
    IN  IF IsRaise(r) THEN Return(value) ELSE r

\* Any exception of the resolver becomes a ValueError that names the unit.
_apply_prefix(value, unit) ==
    LET r == apply_prefix(value, unit)
    IN  IF IsRaise(r)
        THEN Raise("ValueError", <<"Could not understand units", unit>>)
        ELSE r

\* for prop in props (one qubit's list, from its i-th entry): the entry of
\* the qubit index is written inside the loop, once per property.
RECURSIVE QubitPropsLoop(_, _, _, _, _)
QubitPropsLoop(qprops, i, qubit, formatted_props, _qubits) ==
    IF i > Len(qprops) THEN Return(_qubits)
    ELSE LET prop == qprops[i]
             value == _apply_prefix(prop.value, prop.unit)
             formatted == Update(formatted_props,
                                 prop.name :> <<value.val, prop.date>>)
         IN  IF IsRaise(value) THEN value
             ELSE QubitPropsLoop(qprops, i + 1, qubit, formatted,
                                 Update(_qubits, qubit :> formatted))

\* for qubit, props in enumerate(qubits), from qubit number `qubit`.
RECURSIVE QubitsLoop(_, _, _)
QubitsLoop(qubits, qubit, _qubits) ==
    IF qubit >= Len(qubits) THEN Return(_qubits)
    ELSE LET r == QubitPropsLoop(qubits[qubit + 1], 1, qubit, EmptyDict, _qubits)
         IN  IF IsRaise(r) THEN r ELSE QubitsLoop(qubits, qubit + 1, r.val)

\* for param in gate.parameters, from its i-th entry.
RECURSIVE GateParamsLoop(_, _, _)
GateParamsLoop(parameters, i, formatted_props) ==
    IF i > Len(parameters) THEN Return(formatted_props)
    ELSE LET param == parameters[i]
             value == _apply_prefix(param.value, param.unit)
         IN  IF IsRaise(value) THEN value
             ELSE GateParamsLoop(parameters, i + 1,
                      Update(formatted_props,
                             param.name :> <<value.val, param.date>>))

\* for gate in gates, from its i-th record: the record's properties are
\* stored under its name and tuple(gate.qubits), over any earlier entry.
RECURSIVE GatesLoop(_, _, _)
GatesLoop(gates, i, _gates) ==
    IF i > Len(gates) THEN Return(_gates)
    ELSE LET gate == gates[i]
             entry == IF gate.gate \notin DOMAIN _gates
                      THEN Update(_gates, gate.gate :> EmptyDict)
                      ELSE _gates
             r == GateParamsLoop(gate.parameters, 1, EmptyDict)
         IN  IF IsRaise(r) THEN r
             ELSE GatesLoop(gates, i + 1,
                      Update(entry,
                             gate.gate :> Update(entry[gate.gate],
                                                 gate.qubits :> r.val)))

\* AerBackendProperties(backend_name, backend_version, last_update_date,
\*                      qubits, gates, general, **kwargs)
__init__(backend_name, backend_version, last_update_date, qubits, gates, general, kwargs) ==
    LET date == IF last_update_date.type = "str"
                THEN isoparse(last_update_date)
                ELSE last_update_date
        _qubits == QubitsLoop(qubits, 0, EmptyDict)
        _gates == GatesLoop(gates, 1, EmptyDict)
    IN  IF IsRaise(_qubits) THEN _qubits
        ELSE IF IsRaise(_gates) THEN _gates
        ELSE Return([cls |-> "AerBackendProperties",
                     backend_name |-> backend_name,
                     backend_version |-> backend_version,
                     last_update_date |-> date,
                     general |-> general,
                     qubits |-> qubits,
                     gates |-> gates,
                     _qubits |-> _qubits.val,
                     _gates |-> _gates.val,
                     _data |-> Update(EmptyDict, kwargs)])

-----------------------------------------------------------------------------
(* class AerBackendProperties: plain form *)

RequiredKeys ==
    <<"backend_name", "backend_version", "last_update_date",
      "qubits", "gates", "general">>

\* for qubit in in_data.pop("qubits"), from its i-th list.
RECURSIVE QubitsFromDict(_, _, _)
QubitsFromDict(lists, i, acc) ==
    IF i > Len(lists) THEN Return(acc)
    ELSE LET r == MapFromDict(lists[i], 1, <<>>)
         IN  IF IsRaise(r) THEN r ELSE QubitsFromDict(lists, i + 1, Append(acc, r.val))

\* [GateProperties.from_dict(x) for x in in_data.pop("gates")]
RECURSIVE GatesFromDict(_, _, _)
GatesFromDict(dicts, i, acc) ==
    IF i > Len(dicts) THEN Return(acc)
    ELSE LET r == GateProperties_from_dict(dicts[i])
         IN  IF IsRaise(r) THEN r ELSE GatesFromDict(dicts, i + 1, Append(acc, r.val))

\* The first required key, in the order it is popped, that data lacks.
RECURSIVE FirstMissing(_, _)
FirstMissing(data, i) ==
    IF i > Len(RequiredKeys) THEN None
    ELSE IF RequiredKeys[i] \notin DOMAIN data THEN Str(RequiredKeys[i])
    ELSE FirstMissing(data, i + 1)

from_dict(data) ==
    LET missing == FirstMissing(data, 1)
        in_data == Restrict(data, DOMAIN data \ {RequiredKeys[i] : i \in 1..6})
        qubits == QubitsFromDict(data.qubits, 1, <<>>)
        gates == GatesFromDict(data.gates, 1, <<>>)
        general == MapFromDict(data.general, 1, <<>>)
    IN  IF missing # None THEN Raise("KeyError", <<missing.s>>)
        ELSE IF IsRaise(qubits) THEN qubits
        ELSE IF IsRaise(gates) THEN gates
        ELSE IF IsRaise(general) THEN general
        ELSE __init__(data.backend_name, data.backend_version,
                      data.last_update_date, qubits.val, gates.val,
                      general.val, in_data)

to_dict(self) ==
    Update([backend_name |-> self.backend_name,
            backend_version |-> self.backend_version,
            last_update_date |-> self.last_update_date,
            qubits |-> [i \in 1..Len(self.qubits) |-> MapToDict(self.qubits[i])],
            gates |-> [i \in 1..Len(self.gates) |->
                          GateProperties_to_dict(self.gates[i])],
            general |-> MapToDict(self.general)],
           self._data)

\* __eq__: both are snapshots and their plain forms are equal.
Equal(self, rhs) ==
    /\ rhs.cls = "AerBackendProperties"
    /\ to_dict(self) = to_dict(rhs)

-----------------------------------------------------------------------------
(* class AerBackendProperties: accessors *)

\* Python truth of an optional str: None and "" are false.
Truthy(name) == name # None /\ name.s # ""

\* gate is a str (the plain string), qubits None, an int or a sequence of
\* ints, name None or a str.  A KeyError at any step becomes a ValueError.
gate_property(self, gate, qubits, name) ==
    LET notFound == Raise("ValueError", <<"Could not find the desired property", gate>>)
        key == IF qubits.type = "int" THEN <<qubits.v>> ELSE qubits.v
    IN  IF gate \notin DOMAIN self._gates THEN notFound
        ELSE IF qubits # None
        THEN IF key \notin DOMAIN self._gates[gate] THEN notFound
             ELSE IF Truthy(name)
             THEN IF name.s \notin DOMAIN self._gates[gate][key] THEN notFound
                  ELSE Return(self._gates[gate][key][name.s])
             ELSE Return(self._gates[gate][key])
        ELSE IF Truthy(name)
        THEN Raise("ValueError", <<"Provide qubits", name.s, gate>>)
        ELSE Return(self._gates[gate])

\* With qubits None the properties are the gate's dict keyed by qubit tuple,
\* and no tuple equals the str "operational".
is_gate_operational(self, gate, qubits) ==
    LET properties == gate_property(self, gate, qubits, None)
    IN  IF IsRaise(properties) THEN properties
        ELSE IF qubits # None /\ "operational" \in DOMAIN properties.val
        THEN Return(Bool(properties.val["operational"][1]))
        ELSE Return(TRUE)

\* [0] of the named property, or the lookup's exception.
First(r) == IF IsRaise(r) THEN r ELSE Return(r.val[1])

gate_error(self, gate, qubits) ==
    First(gate_property(self, gate, qubits, Str("gate_error")))

gate_length(self, gate, qubits) ==
    First(gate_property(self, gate, qubits, Str("gate_length")))

\* qubit is an int (the plain number), name None or a str.
qubit_property(self, qubit, name) ==
    LET formatted_name == IF Truthy(name) THEN <<"y", name.s>> ELSE <<"ies">>
        notFound == Raise("ValueError", <<"Couldn't find the propert", formatted_name, qubit>>)
    IN  IF qubit \notin DOMAIN self._qubits THEN notFound
        ELSE IF name # None
        THEN IF name.s \notin DOMAIN self._qubits[qubit] THEN notFound
             ELSE Return(self._qubits[qubit][name.s])
        ELSE Return(self._qubits[qubit])

t1(self, qubit) == First(qubit_property(self, qubit, Str("T1")))

t2(self, qubit) == First(qubit_property(self, qubit, Str("T2")))

frequency(self, qubit) == First(qubit_property(self, qubit, Str("frequency")))

readout_error(self, qubit) == First(qubit_property(self, qubit, Str("readout_error")))

readout_length(self, qubit) == First(qubit_property(self, qubit, Str("readout_length")))

is_qubit_operational(self, qubit) ==
    LET properties == qubit_property(self, qubit, None)
    IN  IF IsRaise(properties) THEN properties
        ELSE IF "operational" \in DOMAIN properties.val
        THEN Return(Bool(properties.val["operational"][1]))
        ELSE Return(TRUE)

\* The keys of the qubit index in the order they were inserted: enumerate
\* inserts them by increasing qubit number.
RECURSIVE KeysFrom(_, _)
KeysFrom(keys, qubit) ==
    IF keys = {} THEN <<>>
    ELSE IF qubit \in keys THEN <<qubit>> \o KeysFrom(keys \ {qubit}, qubit + 1)
    ELSE KeysFrom(keys, qubit + 1)

\* for qubit in self._qubits, from the i-th key.
RECURSIVE FaultyQubitsLoop(_, _, _, _)
FaultyQubitsLoop(self, keys, i, faulty) ==
    IF i > Len(keys) THEN Return(faulty)
    ELSE LET r == is_qubit_operational(self, keys[i])
         IN  IF IsRaise(r) THEN r
             ELSE FaultyQubitsLoop(self, keys, i + 1,
                      IF ~r.val THEN Append(faulty, keys[i]) ELSE faulty)

\* faulty_qubits as it would be if it went through the positions of the
\* qubits list instead of the keys of the index.
faulty_qubits_AllPositions(self) ==
    FaultyQubitsLoop(self, [i \in 1..Len(self.qubits) |-> i - 1], 1, <<>>)

faulty_qubits(self) ==
    FaultyQubitsLoop(self, KeysFrom(DOMAIN self._qubits, 0), 1, <<>>)

\* for gate in self.gates, from the i-th record.
RECURSIVE FaultyGatesLoop(_, _, _)
FaultyGatesLoop(self, i, faulty) ==
    IF i > Len(self.gates) THEN Return(faulty)
    ELSE LET gate == self.gates[i]
             r == is_gate_operational(self, gate.gate, Tuple_(gate.qubits))
         IN  IF IsRaise(r) THEN r
             ELSE FaultyGatesLoop(self, i + 1,
                      IF ~r.val THEN Append(faulty, gate) ELSE faulty)

\* faulty_gates as it would be if it read each record's own parameters
\* instead of asking the index.
faulty_gates_OwnParameters(self) ==
    LET Own(i) ==
            LET parameters == self.gates[i].parameters
                ops == {j \in DOMAIN parameters : parameters[j].name = "operational"}
                last == CHOOSE j \in ops : \A k \in ops : k <= j
            IN  ops # {} /\ ~Bool(apply_prefix(parameters[last].value,
                                               parameters[last].unit).val)
        picked == SelectSeq([i \in 1..Len(self.gates) |-> i], Own)
    IN  Return([k \in 1..Len(picked) |-> self.gates[picked[k]]])

faulty_gates(self) == FaultyGatesLoop(self, 1, <<>>)

-----------------------------------------------------------------------------
(* target_to_backend_properties *)

\* A capability map is [num_qubits, items]: num_qubits None or an int, items
\* the (gate, qargs_list) pairs in iteration order, each qargs_list the
\* (qargs, props) pairs in iteration order; qargs None or a tuple, props None
\* or an object with two fields, duration and error, each None or a number.

\* getattr(props, attr, None)
getattr(iprops, attr) == IF iprops = None THEN None ELSE iprops[attr]

\* One NDV in plain form, dated by the clock's reading `now`.
PlainNduv(now, name, unit, value) ==
    [date |-> now, name |-> name, unit |-> unit, value |-> value]

\* The property list of a gate as it would be if it tested the truth value
\* of duration and error: a duration or an error of 0 is then left out.
GatePropertyList_Truthy(iprops, now) ==
    (IF getattr(iprops, "duration") # None /\ Bool(iprops.duration)
     THEN <<PlainNduv(now, "gate_length", <<"s">>, iprops.duration)>>
     ELSE <<>>)
    \o
    (IF getattr(iprops, "error") # None /\ Bool(iprops.error)
     THEN <<PlainNduv(now, "gate_error", <<>>, iprops.error)>>
     ELSE <<>>)

\* The property list of one (qargs, props) pair of a gate.
GatePropertyList(iprops, now) ==
    (IF getattr(iprops, "duration") # None
     THEN <<PlainNduv(now, "gate_length", <<"s">>, iprops.duration)>>
     ELSE <<>>)
    \o
    (IF getattr(iprops, "error") # None
     THEN <<PlainNduv(now, "gate_error", <<>>, iprops.error)>>
     ELSE <<>>)

\* The property list of one (qargs, props) pair of "measure".
MeasurePropsList(iprops, now) ==
    (IF getattr(iprops, "error") # None
     THEN <<PlainNduv(now, "readout_error", <<>>, iprops.error)>>
     ELSE <<>>)
    \o
    (IF getattr(iprops, "duration") # None
     THEN <<PlainNduv(now, "readout_length", <<"s">>, iprops.duration)>>
     ELSE <<>>)

\* for qargs, props in qargs_list.items() of a gate, from the i-th pair.
\* list(None) is a TypeError.
RECURSIVE GateEntriesLoop(_, _, _, _, _)
GateEntriesLoop(gate, qargs_list, i, gates, now) ==
    IF i > Len(qargs_list) THEN Return(gates)
    ELSE LET qargs == qargs_list[i].qargs
             property_list == GatePropertyList(qargs_list[i].props, now)
         IN  IF property_list = <<>>
             THEN GateEntriesLoop(gate, qargs_list, i + 1, gates, now)
             ELSE IF qargs = None
             THEN Raise("TypeError", <<"'NoneType' object is not iterable">>)
             ELSE GateEntriesLoop(gate, qargs_list, i + 1,
                      Append(gates,
                             [gate |-> gate,
                              qubits |-> qargs.v,
                              parameters |-> property_list,
                              name |-> [type |-> "str", join |-> <<gate, qargs.v>>]]),
                      now)

\* A slot of qubit_props: None or a property list.
List_(v) == [type |-> "list", v |-> v]

\* for qargs, props in qargs_list.items() of "measure", from the i-th pair:
\* the qubit_props dict when the loop ends or breaks.
RECURSIVE MeasureEntriesLoop(_, _, _, _)
MeasureEntriesLoop(qargs_list, i, qubit_props, now) ==
    IF i > Len(qargs_list) THEN qubit_props
    ELSE LET qargs == qargs_list[i].qargs
             props_list == MeasurePropsList(qargs_list[i].props, now)
         IN  IF qargs = None
             THEN MeasureEntriesLoop(qargs_list, i + 1, qubit_props, now)
             ELSE IF props_list = <<>>
             THEN EmptyDict      \* qubit_props = {}; break
             ELSE MeasureEntriesLoop(qargs_list, i + 1,
                      Update(qubit_props, qargs.v[1] :> List_(props_list)), now)

\* The "measure" branch as it would be if it took what it found: every
\* declared qubit gets a list, empty where no property was seen.
MeasureBranch_BestEffort(num_qubits, qargs_list, qubits, now) ==
    LET seeded == IF num_qubits # None
                  THEN [x \in 0..(num_qubits.v - 1) |-> None]
                  ELSE EmptyDict
        qubit_props == MeasureEntriesLoop(qargs_list, 1, seeded, now)
    IN  IF DOMAIN qubit_props # {}
        THEN Return([i \in 1..num_qubits.v |->
                        IF qubit_props[i - 1] = None THEN <<>>
                        ELSE qubit_props[i - 1].v])
        ELSE Return(qubits)

\* The "measure" branch: the new value of qubits, or the old one.
\* range(None) is a TypeError.
MeasureBranch(num_qubits, qargs_list, qubits, now) ==
    LET seeded == IF num_qubits # None
                  THEN [x \in 0..(num_qubits.v - 1) |-> None]
                  ELSE EmptyDict
        qubit_props == MeasureEntriesLoop(qargs_list, 1, seeded, now)
    IN  IF DOMAIN qubit_props # {} /\ \A x \in DOMAIN qubit_props : qubit_props[x] # None
        THEN IF num_qubits = None
             THEN Raise("TypeError", <<"'NoneType' object cannot be interpreted as an integer">>)
             ELSE IF \E i \in 0..(num_qubits.v - 1) : i \notin DOMAIN qubit_props
             THEN Raise("KeyError", <<"qubit_props">>)
             ELSE Return([i \in 1..num_qubits.v |-> qubit_props[i - 1].v])
        ELSE Return(qubits)

\* for gate, qargs_list in target.items(), from the i-th pair.
RECURSIVE ItemsLoop(_, _, _, _, _)
ItemsLoop(tgt, i, gates, qubits, now) ==
    IF i > Len(tgt.items) THEN Return([gates |-> gates, qubits |-> qubits])
    ELSE LET gate == tgt.items[i].gate
             qargs_list == tgt.items[i].qargs_list
         IN  IF gate # "measure"
             THEN LET r == GateEntriesLoop(gate, qargs_list, 1, gates, now)
                  IN  IF IsRaise(r) THEN r
                      ELSE ItemsLoop(tgt, i + 1, r.val, qubits, now)
             ELSE LET r == MeasureBranch(tgt.num_qubits, qargs_list, qubits, now)
                  IN  IF IsRaise(r) THEN r
                      ELSE ItemsLoop(tgt, i + 1, gates, r.val, now)

\* The converter as it would be if only gate data made a snapshot.
target_to_backend_properties_GatesOnly(tgt, now) ==
    LET r == ItemsLoop(tgt, 1, <<>>, <<>>, now)
    IN  IF IsRaise(r) THEN r
        ELSE IF r.val.gates # <<>>
        THEN from_dict([backend_name |-> Str(""),
                        backend_version |-> Str(""),
                        last_update_date |-> None,
                        general |-> <<>>,
                        gates |-> r.val.gates,
                        qubits |-> r.val.qubits])
        ELSE Return(None)

\* Returns the snapshot, or None when there is nothing to put in one.
target_to_backend_properties(tgt, now) ==
    LET r == ItemsLoop(tgt, 1, <<>>, <<>>, now)
    IN  IF IsRaise(r) THEN r
        ELSE IF r.val.gates # <<>> \/ r.val.qubits # <<>>
        THEN from_dict([backend_name |-> Str(""),
                        backend_version |-> Str(""),
                        last_update_date |-> None,
                        general |-> <<>>,
                        gates |-> r.val.gates,
                        qubits |-> r.val.qubits])
        ELSE Return(None)

-----------------------------------------------------------------------------
(* The inputs the model draws from *)

\* A snapshot's size: its qubit lists, its gate records and the NDVs of both.
MaxSize == 4

NoUnit == <<>>
Milli == <<"m", "s">>
Unknown == <<"x", "s">>
Unheard == <<"q", "s">>

T0 == Datetime(0)

\* The NDVs a qubit may hold and the NDVs a gate record may hold.
QubitNduvs ==
    {Nduv(T0, "operational", NoUnit, Number(v, 0)) : v \in {0, 1}}
    \cup {Nduv(T0, "T1", u, Number(1, 0)) : u \in {Milli, Unknown}}

GateNduvs ==
    {Nduv(T0, "operational", NoUnit, Number(v, 0)) : v \in {0, 1}}
    \cup {Nduv(T0, "gate_error", u, Number(1, 0)) : u \in {Milli, Unheard}}
    \cup {Nduv(T0, "", NoUnit, Number(1, 0))}

\* The gates and the qubits each acts on.
GateQubits == {<<"x", <<0>>>>, <<"x", <<1>>>>, <<"cx", <<0, 1>>>>}

Lists(S, n) == [1..n -> S]

\* The qubits arguments of cost c: a list costs one more than its NDVs.
RECURSIVE QubitsOfCost(_)
QubitsOfCost(c) ==
    IF c = 0 THEN {<<>>}
    ELSE UNION {{<<l>> \o rest : l \in Lists(QubitNduvs, k),
                                 rest \in QubitsOfCost(c - 1 - k)}
                : k \in 0..(c - 1)}

\* The gates arguments of cost c: a record costs one more than its NDVs.
RECURSIVE GatesOfCost(_)
GatesOfCost(c) ==
    IF c = 0 THEN {<<>>}
    ELSE UNION {{<<GateProperties(h[2], h[1], l, EmptyDict)>> \o rest :
                    h \in GateQubits, l \in Lists(GateNduvs, k),
                    rest \in GatesOfCost(c - 1 - k)}
                : k \in 0..(c - 1)}

Arguments(date, qubits, gates, general, kwargs) ==
    [backend_name |-> Str("aer"), backend_version |-> Str("1.0.0"),
     last_update_date |-> date, qubits |-> qubits, gates |-> gates,
     general |-> general, kwargs |-> kwargs]

\* Snapshots of a given size that differ in their qubits and gates.
ContentInputs(size) ==
    UNION {{Arguments(T0, q, g, <<>>, EmptyDict) :
               q \in QubitsOfCost(cq), g \in GatesOfCost(size - cq)}
           : cq \in 0..size}

\* Snapshots that differ in their date, general list and extension fields.
StructInputs ==
    {Arguments(date, qubits, gates, general, kwargs) :
        date \in {Datetime(1), IsoStr(1), None},
        qubits \in {<<>>, <<<<Nduv(T0, "T1", Milli, Number(1, 0))>>>>,
                    <<<<Nduv(T0, "T1", Unknown, Number(1, 0))>>>>},
        gates \in {<<>>,
                   <<GateProperties(<<0>>, "x", <<>>, EmptyDict)>>,
                   <<GateProperties(<<0>>, "x",
                        <<Nduv(T0, "gate_error", Unheard, Number(1, 0))>>,
                        EmptyDict)>>,
                   <<GateProperties(<<0>>, "x",
                        <<Nduv(T0, "operational", NoUnit, Number(1, 0))>>,
                        [name |-> Str("x0")])>>},
        general \in {<<>>, <<Nduv(T0, "temperature", Unknown, Number(1, 0))>>},
        kwargs \in {EmptyDict, [online_date |-> Datetime(0)]}}

\* The plain form a caller writes for arguments a.
PlainNduvs(nduvs) ==
    [i \in 1..Len(nduvs) |->
        [date |-> nduvs[i].date, name |-> nduvs[i].name,
         unit |-> nduvs[i].unit, value |-> nduvs[i].value]]

PlainData(a) ==
    [backend_name |-> a.backend_name,
     backend_version |-> a.backend_version,
     last_update_date |-> a.last_update_date,
     qubits |-> [i \in 1..Len(a.qubits) |-> PlainNduvs(a.qubits[i])],
     gates |-> [i \in 1..Len(a.gates) |->
                   [qubits |-> a.gates[i].qubits, gate |-> a.gates[i].gate,
                    parameters |-> PlainNduvs(a.gates[i].parameters)]
                   @@ a.gates[i]._data],
     general |-> PlainNduvs(a.general)] @@ a.kwargs

\* The capability maps: at most MaxTargetQubits qubits (or a count that is
\* not known), at most MaxEntries (qargs, props) pairs in all.
MaxTargetQubits == 2
MaxEntries == 2

InstructionProperties(duration, error) ==
    [cls |-> "InstructionProperties", duration |-> duration, error |-> error]

\* The properties a pair may carry: none at all, or an object whose duration
\* and error may each be None.  A pair whose qargs is None (the operation
\* is not tied to qubits) carries none.
PropsOf(qargs) ==
    IF qargs = None THEN {None}
    ELSE {None} \cup {InstructionProperties(d, e) :
                         d \in {None, Number(0, 0)}, e \in {None, Number(1, 0)}}

\* The qargs an operation may be given on a device of n qubits.
QargsOf(gate, n) ==
    CASE gate = "measure" -> {Tuple_(<<q>>) : q \in 0..(n - 1)} \cup {None}
      [] gate = "x" -> {Tuple_(<<q>>) : q \in (0..(n - 1)) \cap {0}} \cup {None}
      [] gate = "cx" -> {Tuple_(<<0, q>>) : q \in 1..(n - 1)}

Operations == {"measure", "x", "cx"}

\* The k-pair qargs_list dicts of an operation: the keys of a dict differ.
QargsLists(gate, n, k) ==
    {l \in [1..k -> UNION {{[qargs |-> q, props |-> p] : p \in PropsOf(q)} :
                              q \in QargsOf(gate, n)}] :
        \A i, j \in 1..k : i # j => l[i].qargs # l[j].qargs}

\* The items of cost c over the operations ops: an operation has one
\* qargs_list, and costs the number of its pairs.
RECURSIVE ItemsOfCost(_, _, _)
ItemsOfCost(ops, n, c) ==
    IF c = 0 THEN {<<>>}
    ELSE UNION {{<<[gate |-> gk[1], qargs_list |-> l]>> \o rest :
                    l \in QargsLists(gk[1], n, gk[2]),
                    rest \in ItemsOfCost(ops \ {gk[1]}, n, c - gk[2])}
                : gk \in ops \X (1..c)}

NumQubits == {None} \cup {Int_(n) : n \in 0..MaxTargetQubits}

\* The capability maps of a device with num_qubits qubits; with an unknown
\* count no operation is tied to qubits.
TargetsOf(num_qubits) ==
    UNION {{[num_qubits |-> num_qubits, items |-> items] :
               items \in ItemsOfCost(Operations,
                                     IF num_qubits = None THEN 0 ELSE num_qubits.v,
                                     c)}
           : c \in 0..MaxEntries}

\* The clock's reading during a conversion.
Now == Datetime(7)

\* The arguments of the accessors.
GateArgs == {"x", "cx"}
QubitsArgs == {None, Int_(0), Tuple_(<<0>>), Tuple_(<<1>>), Tuple_(<<0, 1>>)}
GateNameArgs == {None, Str(""), Str("operational"), Str("gate_error")}
QubitArgs == {0, 1, 2}
QubitNameArgs == {None, Str(""), Str("operational"), Str("T1")}

Call(op, gate, qubits, name, qubit) ==
    [op |-> op, gate |-> gate, qubits |-> qubits, name |-> name, qubit |-> qubit]

NoCall == Call("", None, None, None, None)

-----------------------------------------------------------------------------
(* The state machine *)

Init ==
    /\ args = None
    /\ target = None
    /\ props = None
    /\ raised = None
    /\ call = NoCall
    /\ ret = None

Fresh == args = None /\ target = None

\* What the caller holds after a call that returns an object or raises.
Outcome(r) ==
    /\ props' = IF IsRaise(r) THEN None ELSE r.val
    /\ raised' = IF IsRaise(r) THEN r.val ELSE None
    /\ UNCHANGED <<call, ret>>

\* props = AerBackendProperties(...)
Construct ==
    /\ Fresh
    /\ \E size \in 0..MaxSize : \E a \in ContentInputs(size) \cup StructInputs :
          /\ args' = [via |-> "__init__", a |-> a]
          /\ Outcome(__init__(a.backend_name, a.backend_version,
                              a.last_update_date, a.qubits, a.gates,
                              a.general, a.kwargs))
    /\ UNCHANGED target

\* props = AerBackendProperties.from_dict(data)
ConstructFromDict ==
    /\ Fresh
    /\ \E a \in StructInputs :
          /\ args' = [via |-> "from_dict", a |-> a]
          /\ Outcome(from_dict(PlainData(a)))
    /\ UNCHANGED target

\* props = target_to_backend_properties(target)
Convert ==
    /\ Fresh
    /\ \E num_qubits \in NumQubits : \E tgt \in TargetsOf(num_qubits) :
          /\ target' = tgt
          /\ Outcome(target_to_backend_properties(tgt, Now))
    /\ UNCHANGED args

Built == props # None

\* The snapshot as it would be left by a to_dict that merged the wrong way
\* round (self._data.update(out_dict)): the named fields land in the bag.
self_after_Merged(self, op) ==
    IF op = "to_dict"
    THEN [self EXCEPT !._data = Update(self._data, to_dict(self))]
    ELSE self

\* The snapshot a method leaves behind.  The accessors and to_dict assign no
\* attribute of self and change none of its containers in place: they read
\* self._gates, self._qubits, self.gates, self.qubits, self.general and
\* self._data, rebind locals (qubits = (qubits,), result = result[name]) and
\* fill lists and dicts they made themselves (faulty, out_dict).
self_after(self, op) == self

\* A call on the snapshot the caller holds, made when no result is pending.
Does(c, r) ==
    /\ Built
    /\ call = NoCall
    /\ call' = c
    /\ ret' = r
    /\ props' = self_after(props, c.op)
    /\ UNCHANGED <<args, target, raised>>

GateProperty ==
    \E gate \in GateArgs, qubits \in QubitsArgs, name \in GateNameArgs :
        Does(Call("gate_property", Str(gate), qubits, name, None),
             gate_property(props, gate, qubits, name))

IsGateOperational ==
    \E gate \in GateArgs, qubits \in QubitsArgs :
        Does(Call("is_gate_operational", Str(gate), qubits, None, None),
             is_gate_operational(props, gate, qubits))

GateError ==
    \E gate \in GateArgs, qubits \in QubitsArgs \ {None} :
        Does(Call("gate_error", Str(gate), qubits, None, None),
             gate_error(props, gate, qubits))

GateLength ==
    \E gate \in GateArgs, qubits \in QubitsArgs \ {None} :
        Does(Call("gate_length", Str(gate), qubits, None, None),
             gate_length(props, gate, qubits))

QubitProperty ==
    \E qubit \in QubitArgs, name \in QubitNameArgs :
        Does(Call("qubit_property", None, None, name, Int_(qubit)),
             qubit_property(props, qubit, name))

IsQubitOperational ==
    \E qubit \in QubitArgs :
        Does(Call("is_qubit_operational", None, None, None, Int_(qubit)),
             is_qubit_operational(props, qubit))

T1 ==
    \E qubit \in QubitArgs :
        Does(Call("t1", None, None, None, Int_(qubit)), t1(props, qubit))

T2 ==
    \E qubit \in QubitArgs :
        Does(Call("t2", None, None, None, Int_(qubit)), t2(props, qubit))

Frequency ==
    \E qubit \in QubitArgs :
        Does(Call("frequency", None, None, None, Int_(qubit)),
             frequency(props, qubit))

ReadoutError ==
    \E qubit \in QubitArgs :
        Does(Call("readout_error", None, None, None, Int_(qubit)),
             readout_error(props, qubit))

ReadoutLength ==
    \E qubit \in QubitArgs :
        Does(Call("readout_length", None, None, None, Int_(qubit)),
             readout_length(props, qubit))

FaultyQubits ==
    Does(Call("faulty_qubits", None, None, None, None), faulty_qubits(props))

FaultyGates ==
    Does(Call("faulty_gates", None, None, None, None), faulty_gates(props))

ToDict ==
    Does(Call("to_dict", None, None, None, None), Return(to_dict(props)))

\* AerBackendProperties.from_dict(d), d the plain form to_dict just returned.
FromDict ==
    /\ call.op = "to_dict"
    /\ call' = Call("from_dict", None, None, None, None)
    /\ ret' = from_dict(ret.val)
    /\ UNCHANGED <<args, target, props, raised>>

\* The caller drops the result of the last call.
Discard ==
    /\ call # NoCall
    /\ call' = NoCall
    /\ ret' = None
    /\ UNCHANGED <<args, target, props, raised>>

\* A snapshot is constructed and queried.
NextSnapshot ==
    \/ Construct
    \/ ConstructFromDict
    \/ GateProperty
    \/ IsGateOperational
    \/ GateError
    \/ GateLength
    \/ QubitProperty
    \/ IsQubitOperational
    \/ T1
    \/ T2
    \/ Frequency
    \/ ReadoutError
    \/ ReadoutLength
    \/ FaultyQubits
    \/ FaultyGates
    \/ ToDict
    \/ FromDict
    \/ Discard

\* A capability map is converted and the snapshot's gates are queried.
NextConvert ==
    \/ Convert
    \/ GateError
    \/ GateLength
    \/ Discard

Next == NextSnapshot \/ NextConvert

Spec == Init /\ [][Next]_vars

SpecSnapshot == Init /\ [][NextSnapshot]_vars

SpecConvert == Init /\ [][NextConvert]_vars

-----------------------------------------------------------------------------
(* What the claims speak of, read off the arguments and not off the indices *)

\* The value and date an NDV stands for once its unit is resolved.
Resolved(nduv) == apply_prefix(nduv.value, nduv.unit).val
Derived(nduv) == <<Resolved(nduv), nduv.date>>

Max(S) == CHOOSE x \in S : \A y \in S : y <= x

NamesOf(nduvs) == {nduvs[j].name : j \in DOMAIN nduvs}
Named(nduvs, name) == {j \in DOMAIN nduvs : nduvs[j].name = name}
LastNamed(nduvs, name) == nduvs[Max(Named(nduvs, name))]

\* The operational status a list of NDVs records: true unless an
\* "operational" NDV says otherwise.
RecordedOperational(nduvs) ==
    IF "operational" \in NamesOf(nduvs)
    THEN Bool(Resolved(LastNamed(nduvs, "operational")))
    ELSE TRUE

\* The qubit tuple a qubits argument stands for.
KeyOf(qubits) == IF qubits.type = "int" THEN <<qubits.v>> ELSE qubits.v

\* The records of the gates list for a gate and a qubit tuple.
RecordsOf(gates, gate, key) ==
    {i \in DOMAIN gates : gates[i].gate = gate /\ gates[i].qubits = key}

Called(op) == call.op = op

-----------------------------------------------------------------------------
(* C1 *)

\* C1: the snapshot from_dict builds from a snapshot's to_dict() equals that
\* snapshot (__eq__, on the plain forms), and its last_update_date is a
\* timestamp, not a string.
C1_RoundTrip ==
    Called("from_dict") =>
        /\ ret.kind = "return"
        /\ Equal(props, ret.val)
        /\ Equal(ret.val, props)
        /\ ret.val.last_update_date.type # "str"

\* C1: a round trip of a snapshot given an ISO string for its date, a general
\* NDV, extension kwargs and a gate record with an extension field.
C1_Witness ==
    /\ Called("from_dict")
    /\ ret.kind = "return"
    /\ args.a.last_update_date.type = "str"
    /\ props.general # <<>>
    /\ props.qubits # <<>>
    /\ DOMAIN props._data # {}
    /\ \E i \in DOMAIN props.gates : DOMAIN props.gates[i]._data # {}

-----------------------------------------------------------------------------
(* C2 *)

\* C2: gate_property(gate, qubits, name) with qubits and name given returns
\* the (resolved value, date) of the NDV of that name in the record of that
\* gate and qubit tuple (an int q standing for (q,)), and raises ValueError
\* when the gates list holds no such record or the record no such NDV.
\* Read for lists that hold one record per gate and qubit tuple and one NDV
\* per name in it.
C2_LookupTotality ==
    (Called("gate_property") /\ call.qubits # None /\ call.name # None) =>
        LET recs == RecordsOf(props.gates, call.gate.s, KeyOf(call.qubits))
            name == call.name.s
        IN  IF \E i \in recs : name \in NamesOf(props.gates[i].parameters)
            THEN (/\ Cardinality(recs) = 1
                  /\ \A i \in recs :
                        Cardinality(Named(props.gates[i].parameters, name)) = 1)
                 => \A i \in recs :
                        ret = Return(Derived(LastNamed(props.gates[i].parameters, name)))
            ELSE Raises(ret, "ValueError")

\* C2 for the names Python takes as true: it then holds, and for any list
\* the record that counts is the last one of the gate and qubit tuple.
C2_NonEmptyName ==
    (Called("gate_property") /\ call.qubits # None /\ Truthy(call.name)) =>
        LET recs == RecordsOf(props.gates, call.gate.s, KeyOf(call.qubits))
            name == call.name.s
        IN  IF recs # {} /\ name \in NamesOf(props.gates[Max(recs)].parameters)
            THEN ret = Return(Derived(LastNamed(props.gates[Max(recs)].parameters, name)))
            ELSE Raises(ret, "ValueError")

-----------------------------------------------------------------------------
(* C3 *)

\* C3: is_qubit_operational of a qubit of the qubits list and
\* is_gate_operational of a record of the gates list return the recorded
\* "operational" value as a boolean, and true when none is recorded (a
\* list with no NDV at all included); is_gate_operational without qubits
\* returns true.  For a gate and qubit tuple the record is the last one.
C3_OperationalDefault ==
    /\ (Called("is_qubit_operational") /\ call.qubit.v < Len(props.qubits)) =>
          ret = Return(RecordedOperational(props.qubits[call.qubit.v + 1]))
    /\ (Called("is_gate_operational") /\ call.qubits # None
          /\ RecordsOf(props.gates, call.gate.s, KeyOf(call.qubits)) # {}) =>
          LET recs == RecordsOf(props.gates, call.gate.s, KeyOf(call.qubits))
          IN  ret = Return(RecordedOperational(props.gates[Max(recs)].parameters))
    /\ (Called("is_gate_operational") /\ call.qubits = None
          /\ \E i \in DOMAIN props.gates : props.gates[i].gate = call.gate.s) =>
          ret = Return(TRUE)

\* C3 without the qubits that hold no NDV: it then holds.
C3_IndexedQubits ==
    /\ (Called("is_qubit_operational") /\ call.qubit.v < Len(props.qubits)) =>
          IF props.qubits[call.qubit.v + 1] # <<>>
          THEN ret = Return(RecordedOperational(props.qubits[call.qubit.v + 1]))
          ELSE Raises(ret, "ValueError")
    /\ (Called("is_gate_operational") /\ call.qubits # None
          /\ RecordsOf(props.gates, call.gate.s, KeyOf(call.qubits)) # {}) =>
          LET recs == RecordsOf(props.gates, call.gate.s, KeyOf(call.qubits))
          IN  ret = Return(RecordedOperational(props.gates[Max(recs)].parameters))
    /\ (Called("is_gate_operational") /\ call.qubits = None
          /\ \E i \in DOMAIN props.gates : props.gates[i].gate = call.gate.s) =>
          ret = Return(TRUE)

-----------------------------------------------------------------------------
(* The converter's claims, read off the capability map *)

Converted == target # None /\ target.num_qubits # None

\* The (qargs, props) pairs of the capability map, each with its operation.
PairsOf(tgt) ==
    UNION {{[gate |-> tgt.items[i].gate,
             qargs |-> tgt.items[i].qargs_list[j].qargs,
             props |-> tgt.items[i].qargs_list[j].props] :
               j \in DOMAIN tgt.items[i].qargs_list} : i \in DOMAIN tgt.items}

HasDuration(iprops) == iprops # None /\ iprops.duration # None
HasError(iprops) == iprops # None /\ iprops.error # None
HasData(iprops) == HasDuration(iprops) \/ HasError(iprops)

GatePairs(tgt) == {e \in PairsOf(tgt) : e.gate # "measure"}
GateData(tgt) == {e \in GatePairs(tgt) : HasData(e.props)}

\* Qubit q has a "measure" entry with an error or a duration.
MeasureData(tgt, q) ==
    \E e \in PairsOf(tgt) :
        e.gate = "measure" /\ e.qargs = Tuple_(<<q>>) /\ HasData(e.props)

DeclaredQubits(tgt) == 0..(tgt.num_qubits.v - 1)
IncompleteMeasure(tgt) == \E q \in DeclaredQubits(tgt) : ~MeasureData(tgt, q)
CompleteMeasure(tgt) == DeclaredQubits(tgt) # {} /\ ~IncompleteMeasure(tgt)

-----------------------------------------------------------------------------
(* C4 *)

\* C4: for a capability map with a known qubit count N, the converted
\* snapshot's qubits list is empty or has exactly N entries, each non-empty,
\* and it is empty whenever a declared qubit has no "measure" entry or one
\* with neither error nor duration.
C4_AllOrNothing ==
    (Converted /\ props # None) =>
        /\ \/ props.qubits = <<>>
           \/ /\ Len(props.qubits) = target.num_qubits.v
              /\ \A i \in DOMAIN props.qubits : props.qubits[i] # <<>>
        /\ IncompleteMeasure(target) => props.qubits = <<>>

\* C4: a snapshot is returned for gate data while the "measure" data covers
\* some but not all of the declared qubits.
C4_Witness ==
    /\ Converted /\ props # None
    /\ \E q \in DeclaredQubits(target) : MeasureData(target, q)
    /\ IncompleteMeasure(target)
    /\ props.qubits = <<>>

\* The other side of C4: every declared qubit is covered, and the list has
\* one non-empty entry for each.
C4_Covered ==
    (Converted /\ CompleteMeasure(target)) =>
        /\ props # None
        /\ Len(props.qubits) = target.num_qubits.v
        /\ \A i \in DOMAIN props.qubits : props.qubits[i] # <<>>

-----------------------------------------------------------------------------
(* C5 *)

\* The NDV named name of a record's parameters has this unit and value.
Holds(parameters, name, unit, value) ==
    /\ Cardinality(Named(parameters, name)) = 1
    /\ LastNamed(parameters, name).unit = unit
    /\ LastNamed(parameters, name).value = value

\* C5: for every pair of an operation other than "measure", the converted
\* snapshot holds exactly one record of that gate and those qubits when the
\* duration or the error is not None and none when both are; the record
\* holds "gate_length" (unit "s", the duration) iff there is a duration and
\* "gate_error" (no unit, the error) iff there is an error, and nothing
\* else; no other record is in the list; gate_length and gate_error of the
\* pair return the duration and the error.
C5_GateRecords ==
    Converted =>
        LET gates == IF props = None THEN <<>> ELSE props.gates
        IN  /\ raised = None
            /\ Len(gates) = Cardinality(GateData(target))
            /\ \A e \in GatePairs(target) :
                  e.qargs # None =>
                    LET recs == RecordsOf(gates, e.gate, e.qargs.v)
                    IN  IF HasData(e.props)
                        THEN /\ Cardinality(recs) = 1
                             /\ \A i \in recs :
                                  LET parameters == gates[i].parameters
                                  IN  /\ NamesOf(parameters) =
                                           {"gate_length" : x \in {1} \cap {IF HasDuration(e.props) THEN 1 ELSE 0}}
                                           \cup {"gate_error" : x \in {1} \cap {IF HasError(e.props) THEN 1 ELSE 0}}
                                      /\ HasDuration(e.props) =>
                                           Holds(parameters, "gate_length", <<"s">>, e.props.duration)
                                      /\ HasError(e.props) =>
                                           Holds(parameters, "gate_error", <<>>, e.props.error)
                        ELSE recs = {}
            /\ \A e \in GatePairs(target) :
                  (/\ e.qargs # None 
                   /\ call.gate = Str(e.gate)
                   /\ call.qubits # None
                   /\ KeyOf(call.qubits) = e.qargs.v) =>
                     /\ (Called("gate_length") /\ HasDuration(e.props)) =>
                           ret = Return(e.props.duration)
                     /\ (Called("gate_error") /\ HasError(e.props)) =>
                           ret = Return(e.props.error)

\* C5: gate_length of a converted pair that has a duration of 0 and no error.
C5_Witness ==
    /\ Converted /\ props # None
    /\ Called("gate_length")
    /\ ret.kind = "return"
    /\ \E e \in GateData(target) :
          /\ call.gate = Str(e.gate) /\ KeyOf(call.qubits) = e.qargs.v
          /\ HasDuration(e.props) /\ ~HasError(e.props)
    /\ \E e \in GatePairs(target) : ~HasData(e.props)

-----------------------------------------------------------------------------
(* C6 *)

\* C6: for a capability map with a known qubit count, the converter returns
\* None exactly when no pair of an operation other than "measure" has a
\* duration or an error and the "measure" data does not cover every declared
\* qubit; otherwise it returns a snapshot.  It raises nothing.
C6_Emptiness ==
    Converted =>
        /\ raised = None
        /\ props = None <=> (GateData(target) = {} /\ ~CompleteMeasure(target))

\* C6: None is returned for a map whose gates carry no data and whose
\* "measure" data covers some but not all of the declared qubits.
C6_Witness ==
    /\ Converted /\ props = None
    /\ GatePairs(target) # {}
    /\ \E q \in DeclaredQubits(target) : MeasureData(target, q)

\* The other side of C6: a snapshot of "measure" data alone.
C6_MeasureOnly ==
    Converted /\ props # None /\ GateData(target) = {}

-----------------------------------------------------------------------------
(* C7 *)

RECURSIVE Flatten(_)
Flatten(lists) == IF lists = <<>> THEN <<>> ELSE Head(lists) \o Flatten(Tail(lists))

\* The NDVs the constructor resolves, in the order it meets them: those of
\* the qubits, then those of the gate records.  Not those of general.
ScanOrder(a) ==
    Flatten(a.qubits) \o Flatten([i \in DOMAIN a.gates |-> a.gates[i].parameters])

\* The units the resolver knows: none, one letter, or an SI prefix first.
Recognized(unit) ==
    Len(unit) <= 1 \/ unit[1] \in {"f", "p", "n", "u", "m", "k", "M", "G", "T", "P"}

Unrecognized(a) == {i \in DOMAIN ScanOrder(a) : ~Recognized(ScanOrder(a)[i].unit)}

Min(S) == CHOOSE x \in S : \A y \in S : x <= y

\* C7: when the unit of an NDV of a qubit or of a gate record is not
\* recognized, construction (direct or by from_dict) returns no snapshot and
\* raises a ValueError that names the first such unit, however many NDVs
\* were resolved before it; when every such unit is recognized, construction
\* returns a snapshot.
C7_ConstructionError ==
    args # None =>
        IF Unrecognized(args.a) # {}
        THEN /\ props = None
             /\ raised # None
             /\ raised.type = "ValueError"
             /\ raised.msg = <<"Could not understand units",
                               ScanOrder(args.a)[Min(Unrecognized(args.a))].unit>>
        ELSE /\ raised = None
             /\ props # None

\* C7: construction fails on a gate record's unit after an NDV of a qubit
\* was resolved and indexed.
C7_Witness ==
    /\ args # None /\ props = None /\ raised # None
    /\ raised.msg[2] = Unheard
    /\ args.a.qubits # <<>> /\ args.a.qubits[1] # <<>>
    /\ Min(Unrecognized(args.a)) > 1

\* C7: two different units are unrecognized, and the first is named.
C7_FirstOfTwo ==
    /\ args # None /\ raised # None
    /\ \E i, j \in Unrecognized(args.a) :
          ScanOrder(args.a)[i].unit # ScanOrder(args.a)[j].unit

\* C7: construction by from_dict fails on a unit.
C7_FromDict ==
    args # None /\ args.via = "from_dict" /\ raised # None

\* C7: a snapshot whose general list holds an unrecognized unit is built.
C7_General ==
    /\ args # None /\ props # None
    /\ \E i \in DOMAIN args.a.general : ~Recognized(args.a.general[i].unit)

-----------------------------------------------------------------------------
(* C8 *)

\* C8: gate_property with a name given and qubits None ends in a ValueError
\* and returns no value, whatever the gate and the name.
C8_NameWithoutQubits ==
    (Called("gate_property") /\ call.qubits = None /\ call.name # None) =>
        Raises(ret, "ValueError")

\* C8 for the names Python takes as true: it then holds.
C8_NonEmptyName ==
    (Called("gate_property") /\ call.qubits = None /\ Truthy(call.name)) =>
        Raises(ret, "ValueError")

-----------------------------------------------------------------------------
(* C9 *)

\* The entries of a list that pass a test, in list order.
Picked(list, Test(_)) ==
    LET picked == SelectSeq([i \in 1..Len(list) |-> i], Test)
    IN  [k \in 1..Len(picked) |-> list[picked[k]]]

Positions(list) == [i \in 1..Len(list) |-> i - 1]

\* C9: faulty_qubits() returns, in increasing order, exactly the qubits that
\* hold at least one NDV and whose recorded "operational" resolves to false;
\* a qubit that holds no NDV has no entry in the qubit index, is not
\* returned, and faulty_qubits() does not raise.
C9_FaultyQubits ==
    /\ Built =>
          DOMAIN props._qubits =
              {q \in 0..(Len(props.qubits) - 1) : props.qubits[q + 1] # <<>>}
    /\ Called("faulty_qubits") =>
          LET Faulty(i) == /\ props.qubits[i] # <<>>
                           /\ ~RecordedOperational(props.qubits[i])
          IN  ret = Return(Picked(Positions(props.qubits), Faulty))

\* C9: faulty_qubits() on a snapshot with a qubit that holds no NDV, before
\* a qubit that is recorded as not operational.
C9_Witness ==
    /\ Called("faulty_qubits")
    /\ \E i, j \in DOMAIN props.qubits :
          /\ i < j
          /\ props.qubits[i] = <<>>
          /\ ~RecordedOperational(props.qubits[j])
          /\ ret = Return(<<j - 1>>)

-----------------------------------------------------------------------------
(* C10 *)

\* C10 as stated: faulty_gates() returns, in list order, exactly the records
\* whose own "operational" parameter resolves to false, whatever the other
\* records of the list.
C10_OwnParameters ==
    Called("faulty_gates") =>
        LET Faulty(i) == ~RecordedOperational(props.gates[i].parameters)
        IN  ret = Return(Picked(props.gates, Faulty))

\* C10 as the code has it: faulty_gates() returns, in list order, exactly
\* the records whose gate and qubit tuple are not operational in the index,
\* that is, those for which the last record of the same gate and qubit tuple
\* has an "operational" parameter that resolves to false.
C10_LastRecord ==
    Called("faulty_gates") =>
        LET Last(i) == Max(RecordsOf(props.gates, props.gates[i].gate,
                                     props.gates[i].qubits))
            Faulty(i) == ~RecordedOperational(props.gates[Last(i)].parameters)
        IN  ret = Return(Picked(props.gates, Faulty))

\* C10: faulty_gates() on a list in which two records of one gate and qubit
\* tuple differ in their own operational status.
C10_Witness ==
    /\ Called("faulty_gates")
    /\ ret.kind = "return"
    /\ \E i, j \in DOMAIN props.gates :
          /\ i < j
          /\ props.gates[i].gate = props.gates[j].gate
          /\ props.gates[i].qubits = props.gates[j].qubits
          /\ RecordedOperational(props.gates[i].parameters)
                # RecordedOperational(props.gates[j].parameters)

\* C10 for lists with one record per gate and qubit tuple: the record's own
\* parameters decide.
C10_Distinct ==
    (/\ Called("faulty_gates")
     /\ \A i, j \in DOMAIN props.gates :
           (props.gates[i].gate = props.gates[j].gate
              /\ props.gates[i].qubits = props.gates[j].qubits) => i = j) =>
        LET Faulty(i) == ~RecordedOperational(props.gates[i].parameters)
        IN  ret = Return(Picked(props.gates, Faulty))

-----------------------------------------------------------------------------
(* C11 *)

\* The index entry a list of NDVs stands for: per name, the last NDV's
\* resolved value and date.
IndexOf(nduvs) == [n \in NamesOf(nduvs) |-> Derived(LastNamed(nduvs, n))]

QubitsConsistent(self) ==
    /\ DOMAIN self._qubits =
          {q \in 0..(Len(self.qubits) - 1) : self.qubits[q + 1] # <<>>}
    /\ \A q \in DOMAIN self._qubits :
          self._qubits[q] = IndexOf(self.qubits[q + 1])

GatesConsistent(self) ==
    /\ DOMAIN self._gates = {self.gates[i].gate : i \in DOMAIN self.gates}
    /\ \A g \in DOMAIN self._gates :
          /\ DOMAIN self._gates[g] =
                {self.gates[i].qubits : i \in {j \in DOMAIN self.gates : self.gates[j].gate = g}}
          /\ \A key \in DOMAIN self._gates[g] :
                self._gates[g][key] =
                    IndexOf(self.gates[Max(RecordsOf(self.gates, g, key))].parameters)

\* C11: after any sequence of accessor and to_dict calls, those that ended
\* in a lookup error included, the snapshot still holds the qubits, gates
\* and general lists and the extension bag it was constructed with, and,
\* between the calls of the sequence, its two indices are those its lists
\* stand for.
C11_ReadOnly ==
    Built =>
        /\ args # None =>
              /\ props.qubits = args.a.qubits
              /\ props.gates = args.a.gates
              /\ props.general = args.a.general
              /\ props._data = args.a.kwargs
        /\ call = NoCall =>
              /\ QubitsConsistent(props)
              /\ GatesConsistent(props)

\* C11: a call that ended in a lookup error, on a snapshot with qubits,
\* gates, a general list and an extension bag.
C11_Witness ==
    /\ Built /\ args # None
    /\ Called("gate_property") /\ Raises(ret, "ValueError")
    /\ props.qubits # <<>> /\ props.gates # <<>> /\ props.general # <<>>
    /\ DOMAIN props._data # {}
    /\ DOMAIN props._qubits # {}

\* C11: to_dict was called, and the result read back: the third step of a
\* sequence on one snapshot.
C11_AfterToDict ==
    /\ Built /\ args # None
    /\ Called("from_dict")
    /\ DOMAIN props._data # {}

=============================================================================
